---- MODULE Spec2Model ----
(***************************************************************************)
(* Model of the graph execution engine of app/engine.py (GraphEngine):    *)
(* the tool registry, the graph store, the run store and the run_graph    *)
(* loop, together with a small family of node functions ("tools") that    *)
(* exercise the engine's control keys "_stop" and "_next_node".           *)
(*                                                                         *)
(* A Python dict is a function whose domain is the set of its keys.  A     *)
(* nested mutable value (a list held under the key "items") is a          *)
(* reference into `heap`, so that dict(state), a shallow copy, shares it.  *)
(***************************************************************************)
EXTENDS Integers, Sequences, FiniteSets, TLC

\* ---------------------------------------------------------------- bounds
MaxCeiling == 3      \* largest explicit max_steps a caller passes
MaxGraphs == 1       \* create_graph calls per behaviour (sequential callers)
MaxGraphsConc == 2   \* create_graph calls per behaviour (concurrent callers)
MaxRuns == 1         \* run ids handed out per behaviour (sequential callers)
MaxRunsConc == 2     \* run ids handed out per behaviour (concurrent callers)
MaxCeilingConc == 2  \* largest max_steps concurrent callers pass
LoopCeiling == 10    \* the ceiling of the counting-loop example
MaxGraphsReview == 2 \* graphs in the store of the code-review engine
MaxRunsReview == 1   \* run_graph calls on the code-review engine

\* ------------------------------------------------------ program constants
DEFAULT_MAX_STEPS == 100

None == "None"       \* Python's None where a node name is expected

\* ------------------------------------------------------------ dict helpers
EmptyDict == << >>

Has(d, k) == k \in DOMAIN d

Put(d, k, v) == [x \in (DOMAIN d) \cup {k} |-> IF x = k THEN v ELSE d[x]]

Del(d, k) == [x \in (DOMAIN d) \ {k} |-> d[x]]

\* dict.get(k, default)
Get(d, k, default) == IF Has(d, k) THEN d[k] ELSE default

\* the stop flag never honoured
Truthy_Never(d) == FALSE

\* truthiness of state.get("_stop"): the key is a boolean when present
Truthy(d) == Has(d, "_stop") /\ d["_stop"] = TRUE

\* --------------------------------------------------------------- inputs
\* node names used by the graphs below; "Z" is never given a tool
NodeNames == {"A", "B", "loop", "Z"}

\* register_tool(name, func) calls the callers make; a name may be re-bound
Registrations ==
  { <<"A", "set_x">>, <<"A", "stop_goto">>, <<"A", "clear_x">>,
    <<"B", "double_x">>, <<"B", "append_item">>,
    <<"loop", "loop_tool">>, <<"loop", "goto_loop">> }

\* GraphCreateRequest bodies the callers post
Requests ==
  { [nodes |-> <<"A", "B">>, edges |-> [A |-> "B", B |-> None], start_node |-> "A"],
    [nodes |-> <<"loop">>, edges |-> [loop |-> None], start_node |-> "loop"],
    [nodes |-> <<"B", "A">>, edges |-> [B |-> "A", A |-> "B"], start_node |-> "B"],
    [nodes |-> <<"A", "Z">>, edges |-> [A |-> "Z"], start_node |-> "A"] }

\* the smaller sets of arguments of two callers whose calls interleave
RegistrationsConc ==
  { <<"A", "set_x">>, <<"A", "stop_goto">>, <<"B", "append_item">> }

RequestsConc ==
  { [nodes |-> <<"A", "B">>, edges |-> [A |-> "B", B |-> None], start_node |-> "A"] }

InitialStatesConc == { EmptyDict, [_next_node |-> "B"] }

\* initial_state arguments of run_graph
InitialStates ==
  { EmptyDict,
    [x |-> 3],
    [_next_node |-> "loop"],
    [_next_node |-> None],
    [_stop |-> TRUE],
    [_stop |-> FALSE] }

\* ---------------------------------------------------------- node functions
\* The result of calling a tool: it raised, or it returned a state; `heap`
\* is the list objects after the call (a tool may mutate a nested list in
\* place, or allocate a new one).
Returned(d, h) == [raised |-> FALSE, exc |-> "none", state |-> d, heap |-> h]

\* the function raised an exception of class exc
Raised(exc, d, h) == [raised |-> TRUE, exc |-> exc, state |-> d, heap |-> h]

\* state["x"] = 1
set_x(d, h) == Returned(Put(d, "x", 1), h)

\* state.pop("x", None)
clear_x(d, h) == Returned(Del(d, "x"), h)

\* state["x"] = state["x"] * 2   (KeyError when "x" is missing)
double_x(d, h) ==
  IF Has(d, "x") THEN Returned(Put(d, "x", d["x"] * 2), h) ELSE Raised("KeyError", d, h)

\* state["_stop"] = True; state["_next_node"] = "B"
stop_goto(d, h) == Returned(Put(Put(d, "_stop", TRUE), "_next_node", "B"), h)

\* state["_next_node"] = "loop"
goto_loop(d, h) == Returned(Put(d, "_next_node", "loop"), h)

\* c = state.get("c", 0) + 1; state["c"] = c
\* if c < 3: state["_next_node"] = "loop"  elif c == 3: state["_stop"] = True
loop_tool(d, h) ==
  LET c == Get(d, "c", 0) + 1
      d1 == Put(d, "c", c)
  IN  IF c < 3 THEN Returned(Put(d1, "_next_node", "loop"), h)
      ELSE IF c = 3 THEN Returned(Put(d1, "_stop", TRUE), h)
      ELSE Returned(d1, h)

\* state.setdefault("items", []).append(1): the list is mutated in place
append_item(d, h) ==
  IF Has(d, "items")
  THEN Returned(d, [h EXCEPT ![d["items"]] = Append(@, 1)])
  ELSE Returned(Put(d, "items", Len(h) + 1), Append(h, <<1>>))

\* tool(state): dispatch on the registered function
\* ---------------------------------------------- the code-review workflow
\* The reviewed source texts.  The tools of workflows.py look at the text only
\* through line counts and substring tests; a text is given here by what those
\* find in it.  "clean": one documented function of 3 lines.  "messy": two
\* undocumented functions of 20 and 14 lines, with print( and TODO, tabs and
\* trailing spaces, no comment line.  "": no text (the default of "code").
CodeFacts(code) ==
  CASE code = "clean" ->
         [functions |-> << [name |-> "f", lines |-> 3, has_doc |-> TRUE] >>,
          style_warnings |-> << >>, issues |-> << >>,
          comment_lines |-> 0, code_lines |-> 3]
    [] code = "messy" ->
         [functions |-> << [name |-> "g", lines |-> 20, has_doc |-> FALSE],
                           [name |-> "h", lines |-> 14, has_doc |-> FALSE] >>,
          style_warnings |-> << "tabs", "trailing spaces" >>,
          issues |-> << "print", "TODO" >>,
          comment_lines |-> 0, code_lines |-> 34]
    [] OTHER ->
         [functions |-> << >>, style_warnings |-> << >>, issues |-> << >>,
          comment_lines |-> 0, code_lines |-> 0]

RECURSIVE Sum(_)
Sum(seq) == IF seq = << >> THEN 0 ELSE Head(seq) + Sum(Tail(seq))

RECURSIVE Undocumented(_)
Undocumented(functions) ==
  IF functions = << >> THEN << >>
  ELSE (IF Head(functions).has_doc THEN << >> ELSE << Head(functions).name >>)
       \o Undocumented(Tail(functions))

\* floats are kept in hundredths: 0.8 is 80, an average of 17.0 is 1700
DEFAULT_THRESHOLD == 80

extract_functions_tool(d, h) ==
  LET functions == CodeFacts(Get(d, "code", "")).functions
  IN  Returned(Put(Put(d, "functions", functions), "function_count", Len(functions)), h)

check_complexity_tool(d, h) ==
  LET functions == Get(d, "functions", << >>)
      complexities == [i \in 1 .. Len(functions) |-> functions[i].lines]
      avg_complexity == IF complexities = << >> THEN 0
                        ELSE (Sum(complexities) * 100) \div Len(complexities)
  IN  Returned(Put(Put(d, "complexities", complexities),
                   "avg_complexity", avg_complexity), h)

style_check_tool(d, h) ==
  LET warnings == CodeFacts(Get(d, "code", "")).style_warnings
  IN  Returned(Put(Put(d, "style_warnings", warnings),
                   "style_warning_count", Len(warnings)), h)

comment_quality_tool(d, h) ==
  LET facts == CodeFacts(Get(d, "code", ""))
      comment_lines == facts.comment_lines
      code_lines == facts.code_lines
      ratio == IF code_lines > 0 THEN (comment_lines * 100) \div code_lines ELSE 0
      comments_feedback == IF code_lines > 0 /\ ratio < 5 THEN << "few comments" >>
                           ELSE IF code_lines > 0 /\ ratio > 40 THEN << "many comments" >>
                           ELSE << >>
  IN  Returned(Put(Put(Put(Put(d, "comment_lines", comment_lines),
                           "code_lines", code_lines),
                       "comment_ratio", ratio),
                   "comment_feedback", comments_feedback), h)

docstring_check_tool(d, h) ==
  Returned(Put(d, "missing_docstrings", Undocumented(Get(d, "functions", << >>))), h)

detect_issues_tool(d, h) ==
  LET issues == CodeFacts(Get(d, "code", "")).issues
  IN  Returned(Put(Put(d, "issues", issues), "issue_count", Len(issues)), h)

suggest_improvements_tool(d, h) ==
  LET issues == Get(d, "issues", << >>)
      avg_complexity == Get(d, "avg_complexity", 0)
      style_warnings == Get(d, "style_warnings", << >>)
      comment_feedback == Get(d, "comment_feedback", << >>)
      missing_docstrings == Get(d, "missing_docstrings", << >>)
      penalty == IF avg_complexity > 3000 THEN 30
                 ELSE IF avg_complexity > 1500 THEN 15 ELSE 0
      score == 100 - 7 * Len(issues) - 3 * Len(style_warnings)
                   - 2 * Len(missing_docstrings) - penalty
      quality_score == IF score < 0 THEN 0 ELSE IF score > 100 THEN 100 ELSE score
      suggestions ==
        (IF avg_complexity > 3000 THEN << "split long functions" >>
         ELSE IF avg_complexity > 1500 THEN << "refactor large functions" >> ELSE << >>)
        \o [i \in 1 .. Len(issues) |-> issues[i]]
        \o style_warnings
        \o comment_feedback
        \o (IF missing_docstrings # << >> THEN << "add docstrings" >> ELSE << >>)
  IN  Returned(Put(Put(d, "suggestions", suggestions), "quality_score", quality_score), h)

\* approval on a score strictly above the threshold
quality_loop_tool_Strict(d, h) ==
  LET quality_score == Get(d, "quality_score", 0)
      threshold == Get(d, "quality_threshold", DEFAULT_THRESHOLD)
  IN  IF quality_score > threshold
      THEN Returned(Put(Put(d, "approved", TRUE), "_stop", TRUE), h)
      ELSE Returned(Put(Put(d, "approved", FALSE),
                        "_next_node", "suggest_improvements"), h)

quality_loop_tool(d, h) ==
  LET quality_score == Get(d, "quality_score", 0)
      threshold == Get(d, "quality_threshold", DEFAULT_THRESHOLD)
  IN  IF quality_score >= threshold
      THEN Returned(Put(Put(d, "approved", TRUE), "_stop", TRUE), h)
      ELSE Returned(Put(Put(d, "approved", FALSE),
                        "_next_node", "suggest_improvements"), h)

\* the registrations workflows.py makes when it is imported
ReviewRegistrations ==
  { <<"extract_functions", "extract_functions_tool">>,
    <<"check_complexity", "check_complexity_tool">>,
    <<"style_check", "style_check_tool">>,
    <<"comment_quality", "comment_quality_tool">>,
    <<"docstring_check", "docstring_check_tool">>,
    <<"detect_issues", "detect_issues_tool">>,
    <<"suggest_improvements", "suggest_improvements_tool">>,
    <<"quality_check", "quality_loop_tool">> }

\* the request create_default_code_review_graph builds
ReviewRequest ==
  [nodes |-> << "extract_functions", "check_complexity", "style_check",
                "comment_quality", "docstring_check", "detect_issues",
                "suggest_improvements", "quality_check" >>,
   edges |-> [extract_functions |-> "check_complexity",
              check_complexity |-> "style_check",
              style_check |-> "comment_quality",
              comment_quality |-> "docstring_check",
              docstring_check |-> "detect_issues",
              detect_issues |-> "suggest_improvements",
              suggest_improvements |-> "quality_check",
              quality_check |-> None],
   start_node |-> "extract_functions"]

\* initial states of code-review runs: a text, with or without a threshold
\* (0.5, 0.61, 0.9); no text at all; a text with the stop flag already set
ReviewInitialStates ==
  { EmptyDict,
    [code |-> "clean"],
    [code |-> "messy"],
    [code |-> "clean", quality_threshold |-> 90],
    [code |-> "messy", quality_threshold |-> 50],
    [code |-> "messy", quality_threshold |-> 61],
    [code |-> "messy", _stop |-> TRUE] }

Call(func, d, h) ==
  CASE func = "set_x" -> set_x(d, h)
    [] func = "clear_x" -> clear_x(d, h)
    [] func = "double_x" -> double_x(d, h)
    [] func = "stop_goto" -> stop_goto(d, h)
    [] func = "goto_loop" -> goto_loop(d, h)
    [] func = "loop_tool" -> loop_tool(d, h)
    [] func = "append_item" -> append_item(d, h)
    [] func = "extract_functions_tool" -> extract_functions_tool(d, h)
    [] func = "check_complexity_tool" -> check_complexity_tool(d, h)
    [] func = "style_check_tool" -> style_check_tool(d, h)
    [] func = "comment_quality_tool" -> comment_quality_tool(d, h)
    [] func = "docstring_check_tool" -> docstring_check_tool(d, h)
    [] func = "detect_issues_tool" -> detect_issues_tool(d, h)
    [] func = "suggest_improvements_tool" -> suggest_improvements_tool(d, h)
    [] func = "quality_loop_tool" -> quality_loop_tool(d, h)

\* a copy that leaves the routing key out
ShallowCopy_NoNext(d) == [x \in (DOMAIN d) \ {"_next_node"} |-> d[x]]

\* dict(state): a new dict with the same keys, sharing the values
ShallowCopy(d) == d

\* what a reader of dict d sees: nested lists are read through the heap
Deref(d, h) ==
  [k \in DOMAIN d |-> IF k = "items" THEN h[d[k]] ELSE d[k]]

\* ------------------------------------------------------------------ state
VARIABLES
  tool_registry,  \* GraphEngine.tool_registry: node name -> function
  graphs,         \* GraphEngine.graphs: graph id -> GraphDefinition
  runs,           \* GraphEngine.runs: run id -> RunRecord
  heap,           \* the list objects the states and snapshots refer to
  call,           \* per caller: the locals of its run_graph call
  uuids,          \* number of run ids uuid4() has handed out
  got,            \* the last get_run call: its run id and what it returned
  created,        \* what create_graph returned, call by call: id and request
  env             \* the callers and the arguments they ever pass (fixed)

vars == <<tool_registry, graphs, runs, heap, call, uuids, got, created, env>>

Callers == {1, 2}

\* RunRecord(run_id, graph_id): empty log, current_state = {}
RunRecord(run_id, graph_id) ==
  [run_id |-> run_id, graph_id |-> graph_id, log |-> << >>,
   current_state |-> EmptyDict]

\* GraphDefinition(graph_id, nodes, edges, start_node)
GraphDefinition(graph_id, request) ==
  [graph_id |-> graph_id, nodes |-> request.nodes, edges |-> request.edges,
   start_node |-> request.start_node]

\* a step that records the state as the transition leaves it
ExecutionStep_Popped(step_number, node, snapshot) ==
  [step_number |-> step_number, node |-> node,
   state_snapshot |-> [x \in (DOMAIN snapshot) \ {"_next_node"} |-> snapshot[x]]]

\* a step numbered from 1 instead of from 0
ExecutionStep_OneBased(step_number, node, snapshot) ==
  [step_number |-> step_number + 1, node |-> node, state_snapshot |-> snapshot]

\* ExecutionStep(step_number, node, state_snapshot)
ExecutionStep(step_number, node, snapshot) ==
  [step_number |-> step_number, node |-> node, state_snapshot |-> snapshot]

NoGraph == [graph_id |-> 0, nodes |-> << >>, edges |-> EmptyDict, start_node |-> None]

\* a caller that is not inside run_graph and has made no call yet
Idle ==
  [pc |-> "idle", graph_id |-> 0, max_steps |-> 0, graph |-> NoGraph,
   run_record |-> RunRecord(0, 0), state |-> EmptyDict, current_node |-> None,
   step_number |-> 0, error |-> "none", exc |-> "none",
   \* bookkeeping of the call, not read by the engine
   initial_state |-> EmptyDict, inputs |-> << >>, outputs |-> << >>,
   invoked |-> 0, runs_before |-> << >>]

\* self.tool_registry.get(name)
RegistryGet(name) ==
  IF name \in DOMAIN tool_registry THEN tool_registry[name] ELSE None

\* graph.edges.get(current_node)
EdgesGet(edges, node) == IF node \in DOMAIN edges THEN edges[node] ELSE None

\* "_next_node" consulted before "_stop"
Transition_NextFirst(state, current_node, edges) ==
  LET next_from_state == Get(state, "_next_node", None)
      popped == Del(state, "_next_node")
  IN  IF next_from_state # None
      THEN [state |-> popped, current_node |-> next_from_state]
      ELSE IF Truthy(state)
      THEN [state |-> state, current_node |-> None]
      ELSE [state |-> popped, current_node |-> EdgesGet(edges, current_node)]

\* "_next_node" read with get instead of pop: it stays in the state
Transition_NoPop(state, current_node, edges) ==
  IF Truthy(state)
  THEN [state |-> state, current_node |-> None]
  ELSE LET next_from_state == Get(state, "_next_node", None)
       IN  IF next_from_state # None
           THEN [state |-> state, current_node |-> next_from_state]
           ELSE [state |-> state, current_node |-> EdgesGet(edges, current_node)]

\* the static edge wins over "_next_node"
Transition_StaticFirst(state, current_node, edges) ==
  IF Truthy(state)
  THEN [state |-> state, current_node |-> None]
  ELSE LET next_from_state == Get(state, "_next_node", None)
           popped == Del(state, "_next_node")
       IN  IF EdgesGet(edges, current_node) # None
           THEN [state |-> popped, current_node |-> EdgesGet(edges, current_node)]
           ELSE [state |-> popped, current_node |-> next_from_state]

\* the static edges never followed
Transition_NoStatic(state, current_node, edges) ==
  IF Truthy(state)
  THEN [state |-> state, current_node |-> None]
  ELSE LET next_from_state == Get(state, "_next_node", None)
           popped == Del(state, "_next_node")
       IN  [state |-> popped, current_node |-> next_from_state]

\* both control keys removed when the run goes on
Transition_PopStop(state, current_node, edges) ==
  IF Truthy(state)
  THEN [state |-> state, current_node |-> None]
  ELSE LET next_from_state == Get(state, "_next_node", None)
           popped == Del(Del(state, "_next_node"), "_stop")
       IN  IF next_from_state # None
           THEN [state |-> popped, current_node |-> next_from_state]
           ELSE [state |-> popped, current_node |-> EdgesGet(edges, current_node)]

\* the "decide next node" block: the state and the current node after it
Transition(state, current_node, edges) ==
  IF Truthy(state)
  THEN [state |-> state, current_node |-> None]
  ELSE LET next_from_state == Get(state, "_next_node", None)
           popped == Del(state, "_next_node")
       IN  IF next_from_state # None
           THEN [state |-> popped, current_node |-> next_from_state]
           ELSE [state |-> popped, current_node |-> EdgesGet(edges, current_node)]

\* the ceiling ignored
LoopCondition_NoCeiling(current_node, step_number, max_steps) ==
  current_node # None

\* the ceiling compared with <= : one step too many
LoopCondition_OffByOne(current_node, step_number, max_steps) ==
  current_node # None /\ step_number <= max_steps

\* the while condition of run_graph
LoopCondition(current_node, step_number, max_steps) ==
  current_node # None /\ step_number < max_steps

\* ------------------------------------------------------------------ Init
\* what get_run returns for an id the run store does not hold
NoRecord == << >>

InitEngine ==
  /\ tool_registry = << >>
  /\ graphs = << >>
  /\ runs = << >>
  /\ heap = << >>
  /\ call = [c \in Callers |-> Idle]
  /\ uuids = 0
  /\ got = [run_id |-> 0, result |-> NoRecord]
  /\ created = << >>

\* one caller at a time; explicit ceilings and the default one
Init ==
  /\ InitEngine
  /\ env = [threads |-> {1},
            ceilings |-> (-1 .. MaxCeiling) \cup {LoopCeiling, DEFAULT_MAX_STEPS},
            registrations |-> Registrations,
            requests |-> Requests,
            initial_states |-> InitialStates,
            max_graphs |-> MaxGraphs,
            max_runs |-> MaxRuns]

\* two callers whose calls interleave
InitConc ==
  /\ InitEngine
  /\ env = [threads |-> {1, 2},
            ceilings |-> 1 .. MaxCeilingConc,
            registrations |-> RegistrationsConc,
            requests |-> RequestsConc,
            initial_states |-> InitialStatesConc,
            max_graphs |-> MaxGraphsConc,
            max_runs |-> MaxRunsConc]

\* the engine after app.workflows is imported: the eight tools registered and
\* the default code-review graph created; one caller, who may register a tool
\* again, create the graph once more and run under the default ceiling or 10
InitReview ==
  /\ tool_registry = [n \in { reg[1] : reg \in ReviewRegistrations } |->
                        (CHOOSE reg \in ReviewRegistrations : reg[1] = n)[2]]
  /\ graphs = Put(EmptyDict, 1, GraphDefinition(1, ReviewRequest))
  /\ created = << [graph_id |-> 1, request |-> ReviewRequest] >>
  /\ runs = << >>
  /\ heap = << >>
  /\ call = [c \in Callers |-> Idle]
  /\ uuids = 0
  /\ got = [run_id |-> 0, result |-> NoRecord]
  /\ env = [threads |-> {1},
            ceilings |-> {LoopCeiling, DEFAULT_MAX_STEPS},
            registrations |-> ReviewRegistrations \cup { <<"quality_check", "stop_goto">> },
            requests |-> {ReviewRequest},
            initial_states |-> ReviewInitialStates,
            max_graphs |-> MaxGraphsReview,
            max_runs |-> MaxRunsReview]

\* ---------------------------------------------------------------- actions
\* a caller is inside run_graph from its first line to its return or raise
Busy(c) == call[c].pc = "loop"

register_tool(c, name, func) ==
  /\ ~Busy(c)
  /\ tool_registry' = Put(tool_registry, name, func)
  /\ UNCHANGED <<graphs, runs, heap, call, uuids, got, created, env>>

\* an id that depends on nothing but a constant
NewGraphId_First(store) == 1

\* graph_id = str(uuid4()): an id no earlier create_graph call was given
NewGraphId(store) == Cardinality(DOMAIN store) + 1

create_graph(c, request) ==
  /\ ~Busy(c)
  /\ Cardinality(DOMAIN graphs) < env.max_graphs
  /\ LET graph_id == NewGraphId(graphs)
     IN  /\ graphs' = Put(graphs, graph_id, GraphDefinition(graph_id, request))
         /\ created' = Append(created, [graph_id |-> graph_id, request |-> request])
  /\ UNCHANGED <<tool_registry, runs, heap, call, uuids, got, env>>

\* the record put in the run store when it is created, before the loop
Begin_StoreAtStart(graph_id, initial_state, max_steps) ==
  LET run_id == uuids + 1 IN
  [call |-> [Idle EXCEPT !.pc = IF graph_id \in DOMAIN graphs THEN "loop" ELSE "raised",
                         !.error = IF graph_id \in DOMAIN graphs THEN "none" ELSE "KeyError",
                         !.exc = IF graph_id \in DOMAIN graphs THEN "none" ELSE "KeyError",
                         !.graph_id = graph_id, !.max_steps = max_steps,
                         !.graph = IF graph_id \in DOMAIN graphs
                                   THEN graphs[graph_id] ELSE NoGraph,
                         !.run_record = RunRecord(run_id, graph_id),
                         !.state = ShallowCopy(initial_state),
                         !.current_node = IF graph_id \in DOMAIN graphs
                                          THEN graphs[graph_id].start_node ELSE None,
                         !.initial_state = initial_state,
                         !.runs_before = runs],
   uuids |-> run_id,
   runs |-> Put(runs, run_id, RunRecord(run_id, graph_id))]

\* every run given the same run id
Begin_ReusedRunId(graph_id, initial_state, max_steps) ==
  [call |-> [Idle EXCEPT !.pc = IF graph_id \in DOMAIN graphs THEN "loop" ELSE "raised",
                         !.error = IF graph_id \in DOMAIN graphs THEN "none" ELSE "KeyError",
                         !.exc = IF graph_id \in DOMAIN graphs THEN "none" ELSE "KeyError",
                         !.graph_id = graph_id, !.max_steps = max_steps,
                         !.graph = IF graph_id \in DOMAIN graphs
                                   THEN graphs[graph_id] ELSE NoGraph,
                         !.run_record = IF graph_id \in DOMAIN graphs
                                        THEN RunRecord(1, graph_id) ELSE Idle.run_record,
                         !.state = IF graph_id \in DOMAIN graphs
                                   THEN ShallowCopy(initial_state) ELSE Idle.state,
                         !.current_node = IF graph_id \in DOMAIN graphs
                                          THEN graphs[graph_id].start_node ELSE None,
                         !.initial_state = initial_state,
                         !.runs_before = runs],
   uuids |-> IF graph_id \in DOMAIN graphs THEN uuids + 1 ELSE uuids,
   runs |-> runs]

\* run_graph up to the loop (graph lookup, run id, record, locals): the
\* caller's locals, the uuid count and the run store after it
Begin(graph_id, initial_state, max_steps) ==
  IF graph_id \notin DOMAIN graphs
  THEN [call |-> [Idle EXCEPT !.pc = "raised", !.error = "KeyError", !.exc = "KeyError",
                              !.graph_id = graph_id, !.max_steps = max_steps,
                              !.initial_state = initial_state,
                              !.runs_before = runs],
        uuids |-> uuids,
        runs |-> runs]
  ELSE [call |-> [Idle EXCEPT !.pc = "loop",
                              !.graph_id = graph_id, !.max_steps = max_steps,
                              !.graph = graphs[graph_id],
                              !.run_record = RunRecord(uuids + 1, graph_id),
                              !.state = ShallowCopy(initial_state),
                              !.current_node = graphs[graph_id].start_node,
                              !.step_number = 0,
                              !.initial_state = initial_state,
                              !.runs_before = runs],
        uuids |-> uuids + 1,
        runs |-> runs]

run_graph_Begin(c, graph_id, initial_state, max_steps) ==
  /\ ~Busy(c)
  /\ uuids < env.max_runs
  /\ LET b == Begin(graph_id, initial_state, max_steps)
     IN  /\ call' = [call EXCEPT ![c] = b.call]
         /\ uuids' = b.uuids
         /\ runs' = b.runs
  /\ UNCHANGED <<tool_registry, graphs, heap, got, created, env>>

\* one iteration of the while loop
run_graph_Iterate(c) ==
  LET k == call[c]
      tool == RegistryGet(k.current_node)
      r == Call(tool, k.state, heap)
      snapshot == ShallowCopy(r.state)
      t == Transition(r.state, k.current_node, k.graph.edges)
      invocation == [node |-> k.current_node, func |-> tool, state |-> k.state]
  IN
  /\ k.pc = "loop"
  /\ LoopCondition(k.current_node, k.step_number, k.max_steps)
  /\ IF tool = None
     THEN /\ call' = [call EXCEPT ![c].pc = "raised", ![c].error = "ValueError",
                                  ![c].exc = "ValueError"]
          /\ UNCHANGED heap
     ELSE IF r.raised
     THEN /\ call' = [call EXCEPT ![c].pc = "raised", ![c].error = "NodeError",
                                  ![c].exc = r.exc,
                                  ![c].inputs = Append(@, invocation),
                                  ![c].invoked = @ + 1]
          /\ heap' = r.heap
     ELSE /\ call' = [call EXCEPT
                 ![c].run_record.current_state = snapshot,
                 ![c].run_record.log =
                     Append(@, ExecutionStep(k.step_number, k.current_node, snapshot)),
                 ![c].state = t.state,
                 ![c].current_node = t.current_node,
                 ![c].step_number = @ + 1,
                 ![c].inputs = Append(@, invocation),
                 ![c].outputs = Append(@, r.state),
                 ![c].invoked = @ + 1]
          /\ heap' = r.heap
  /\ UNCHANGED <<tool_registry, graphs, runs, uuids, got, created, env>>

\* the loop has ended: self.runs[run_id] = run_record; return run_record
run_graph_Finish(c) ==
  LET k == call[c] IN
  /\ k.pc = "loop"
  /\ ~LoopCondition(k.current_node, k.step_number, k.max_steps)
  /\ runs' = Put(runs, k.run_record.run_id, k.run_record)
  /\ call' = [call EXCEPT ![c].pc = "returned"]
  /\ UNCHANGED <<tool_registry, graphs, heap, uuids, got, created, env>>

\* self.runs.get(run_id): an Optional[RunRecord], the sequence of no record
\* (None) or of the one record found
get_run(c, run_id) ==
  /\ ~Busy(c)
  /\ got' = [run_id |-> run_id,
             result |-> IF run_id \in DOMAIN runs THEN <<runs[run_id]>> ELSE NoRecord]
  /\ UNCHANGED <<tool_registry, graphs, runs, heap, call, uuids, created, env>>

\* POST /graph/run around the run_graph call with locals k: the response
run_graph_endpoint(k) ==
  IF k.pc = "returned"
  THEN [status_code |-> 200, detail |-> "", run_id |-> k.run_record.run_id,
        final_state |-> k.run_record.current_state, log |-> k.run_record.log]
  ELSE IF k.exc = "KeyError"
  THEN [status_code |-> 404, detail |-> "Graph not found."]
  ELSE IF k.exc = "ValueError"
  THEN [status_code |-> 400,
        detail |-> IF k.error = "ValueError"
                   THEN "No tool registered for node" ELSE "message of the node's error"]
  ELSE [status_code |-> 500, detail |-> "Internal Server Error"]

Next ==
  \/ \E c \in env.threads, reg \in env.registrations :
       register_tool(c, reg[1], reg[2])
  \/ \E c \in env.threads, request \in env.requests : create_graph(c, request)
  \/ \E c \in env.threads, graph_id \in 1 .. env.max_graphs + 1,
        initial_state \in env.initial_states, max_steps \in env.ceilings :
       run_graph_Begin(c, graph_id, initial_state, max_steps)
  \/ \E c \in env.threads : run_graph_Iterate(c)
  \/ \E c \in env.threads : run_graph_Finish(c)
  \/ \E c \in env.threads, run_id \in 1 .. env.max_runs : get_run(c, run_id)

Spec == Init /\ [][Next]_vars

SpecConc == InitConc /\ [][Next]_vars

\* a call that has entered run_graph keeps executing: the interpreter runs the
\* loop body and the statements after the loop whenever they are the next to
\* execute, and every node invocation returns or raises (one step of Iterate);
\* both steps change the caller's locals
Fairness ==
  \A c \in Callers : WF_call(run_graph_Iterate(c)) /\ WF_call(run_graph_Finish(c))

SpecReview == InitReview /\ [][Next]_vars

SpecFair == Init /\ [][Next]_vars /\ Fairness

\* ================================================================= claims
InCall(c) == call[c].pc \in {"loop", "returned"}

Log(c) == call[c].run_record.log

Max(a, b) == IF a >= b THEN a ELSE b

\* log order and step numbers agree: entry i (from 1) carries number i - 1
Contiguous(log) == \A i \in 1 .. Len(log) : log[i].step_number = i - 1

\* the record of a returned call is the one in the run store
Stored(c) ==
  /\ call[c].run_record.run_id \in DOMAIN runs
  /\ runs[call[c].run_record.run_id] = call[c].run_record

\* C1 as stated: in every run record returned or stored the step numbers are
\* 0..k-1 in log order, one entry per node invocation, and k <= max_steps.
C1_Original ==
  /\ \A r \in DOMAIN runs : Contiguous(runs[r].log)
  /\ \A c \in env.threads :
       call[c].pc = "returned" =>
         /\ Contiguous(Log(c))
         /\ Len(Log(c)) = call[c].invoked
         /\ Len(Log(c)) <= call[c].max_steps

\* C1 amended: the same with k <= max(max_steps, 0): a negative ceiling gives
\* an empty log, whose length 0 exceeds the ceiling.
C1_StepNumbers ==
  /\ \A r \in DOMAIN runs : Contiguous(runs[r].log)
  /\ \A c \in env.threads :
       InCall(c) =>
         /\ Contiguous(Log(c))
         /\ Len(Log(c)) = call[c].invoked
         /\ Len(Log(c)) <= Max(call[c].max_steps, 0)
         /\ call[c].pc = "returned" => Stored(c)

\* a stored record of three steps under a ceiling of three
C1_Witness ==
  \E c \in env.threads :
    /\ call[c].pc = "returned"
    /\ Stored(c)
    /\ Len(Log(c)) = 3
    /\ call[c].max_steps = 3

\* C2: once a node returns a state with a truthy "_stop" no further node is
\* invoked, whatever "_next_node" or the static edge say, and "_next_node",
\* when the node left it in that state, is still in the live state and in the
\* record's final state (and in the stored record).
C2_StopPriority ==
  \A c \in env.threads :
    InCall(c) =>
      LET out == call[c].outputs IN
      /\ \A i \in 1 .. Len(out) - 1 : ~Truthy(out[i])
      /\ (Len(out) > 0 /\ Truthy(out[Len(out)])) =>
           LET last == out[Len(out)] IN
           /\ call[c].current_node = None
           /\ call[c].invoked = Len(out)
           /\ Has(last, "_next_node") =>
                /\ Has(call[c].state, "_next_node")
                /\ call[c].state["_next_node"] = last["_next_node"]
                /\ Has(call[c].run_record.current_state, "_next_node")
                /\ call[c].run_record.current_state["_next_node"] = last["_next_node"]
                /\ call[c].pc = "returned" =>
                     Has(runs[call[c].run_record.run_id].current_state, "_next_node")

\* a stored run that stopped on a state holding "_next_node" while the
\* stopping node had a static successor and the ceiling allowed more steps
C2_Witness ==
  \E c \in env.threads :
    /\ call[c].pc = "returned"
    /\ Len(call[c].outputs) > 0
    /\ LET n == Len(call[c].outputs) IN
       /\ Truthy(call[c].outputs[n])
       /\ Has(call[c].outputs[n], "_next_node")
       /\ call[c].outputs[n]["_next_node"] # None
       /\ EdgesGet(call[c].graph.edges, call[c].inputs[n].node) # None
       /\ n < call[c].max_steps
       /\ Has(runs[call[c].run_record.run_id].current_state, "_next_node")

\* invocation i of call c returned a state that redirects: no truthy "_stop",
\* and "_next_node" present
Redirects(c, i) ==
  /\ ~Truthy(call[c].outputs[i])
  /\ Has(call[c].outputs[i], "_next_node")

\* invocation i + 1 of call c ran the node named by invocation i, on a state
\* without "_next_node"
Redirected(c, i) ==
  /\ call[c].inputs[i + 1].node = call[c].outputs[i]["_next_node"]
  /\ ~Has(call[c].inputs[i + 1].state, "_next_node")

\* C3 as stated: whenever a node returns a state without a truthy "_stop" and
\* with the "_next_node" key present, the next node invoked is the one the key
\* names, and its input state has no "_next_node".
C3_Original ==
  \A c \in env.threads :
    \A i \in 1 .. Len(call[c].outputs) :
      (Redirects(c, i) /\ i < Len(call[c].inputs)) => Redirected(c, i)

\* C3 amended: the same when the key holds a value other than None; a key
\* holding None is removed too, and the static edge is followed.
C3_DynamicNext ==
  \A c \in env.threads :
    \A i \in 1 .. Len(call[c].outputs) :
      LET out == call[c].outputs[i] IN
      /\ (Redirects(c, i) /\ out["_next_node"] # None) =>
           /\ i = Len(call[c].outputs) =>
                /\ call[c].current_node = out["_next_node"]
                /\ ~Has(call[c].state, "_next_node")
           /\ i < Len(call[c].inputs) => Redirected(c, i)
      /\ (Redirects(c, i) /\ out["_next_node"] = None /\ i < Len(call[c].inputs)) =>
           /\ call[c].inputs[i + 1].node =
                EdgesGet(call[c].graph.edges, call[c].inputs[i].node)
           /\ ~Has(call[c].inputs[i + 1].state, "_next_node")

\* a redirect away from the static successor was followed, and a redirect of
\* a node to itself was followed
C3_Witness ==
  \E c \in env.threads :
    \E i \in 1 .. Len(call[c].outputs) :
      /\ Redirects(c, i)
      /\ i < Len(call[c].inputs)
      /\ call[c].outputs[i]["_next_node"] = "loop"
      /\ call[c].inputs[i].node = "A"
      /\ EdgesGet(call[c].graph.edges, "A") = "B"
      /\ call[c].inputs[i + 1].node = "loop"
      /\ i + 1 < Len(call[c].inputs)
      /\ call[c].inputs[i + 2].node = "loop"

\* every invocation of call c so far returned, without a truthy "_stop" and
\* with "_next_node" naming the node that was invoked
SelfLooping(c) ==
  /\ Len(call[c].outputs) >= 1
  /\ Len(call[c].outputs) = call[c].invoked
  /\ \A i \in 1 .. Len(call[c].outputs) :
       /\ Redirects(c, i)
       /\ call[c].outputs[i]["_next_node"] = call[c].inputs[i].node

\* C4: a run whose node redirects to itself on every invocation and never
\* stops does not fail, is still at that node while below the ceiling, and
\* returns after exactly max_steps invocations with max_steps log entries, the
\* record stored and the final state without a truthy stop flag.
C4_SelfLoopCapped ==
  \A c \in env.threads :
    SelfLooping(c) =>
      /\ call[c].pc # "raised"
      /\ call[c].pc = "loop" =>
           /\ call[c].current_node = call[c].inputs[1].node
           /\ call[c].step_number = call[c].invoked
           /\ call[c].step_number <= call[c].max_steps
      /\ call[c].pc = "returned" =>
           /\ call[c].invoked = call[c].max_steps
           /\ Len(Log(c)) = call[c].max_steps
           /\ Stored(c)
           /\ ~Truthy(call[c].run_record.current_state)
           /\ ~Truthy(runs[call[c].run_record.run_id].current_state)

\* the default ceiling: a stored self-looping run of exactly 100 entries
C4_Witness ==
  \E c \in env.threads :
    /\ SelfLooping(c)
    /\ call[c].pc = "returned"
    /\ call[c].max_steps = DEFAULT_MAX_STEPS
    /\ Len(runs[call[c].run_record.run_id].log) = 100

\* C5: a run_graph call naming a graph id that is not in the graph store
\* raises the graph-not-found error having invoked no node, and the step that
\* raises leaves the graph store, the tool registry and the run store as they
\* were; the failed call owns no run id, so no record of it is in the store.
C5_GraphNotFound ==
  /\ [](\A c \in Callers :
          call[c].error = "KeyError" =>
            /\ call[c].pc = "raised"
            /\ call[c].invoked = 0
            /\ call[c].run_record.run_id \notin DOMAIN runs
            /\ got.run_id = call[c].run_record.run_id => got.result = NoRecord)
  /\ [][\A c \in Callers :
          (~Busy(c) /\ call'[c] # call[c] /\ call'[c].graph_id \notin DOMAIN graphs) =>
            /\ call'[c].pc = "raised"
            /\ call'[c].error = "KeyError"
            /\ call'[c].invoked = 0
            /\ call'[c].run_record.log = << >>
            /\ tool_registry' = tool_registry
            /\ graphs' = graphs
            /\ runs' = runs
            /\ uuids' = uuids]_vars

\* the call failed on an unknown id while the graph store and the registry
\* held entries
C5_Witness ==
  \E c \in env.threads :
    /\ call[c].error = "KeyError"
    /\ call[c].graph_id \notin DOMAIN graphs
    /\ DOMAIN graphs # {}
    /\ DOMAIN tool_registry # {}
    /\ call[c].runs_before = runs

\* the run_graph call of c failed inside the loop
Failed(c) == call[c].pc = "raised" /\ call[c].error \in {"ValueError", "NodeError"}

\* C6 as stated: when the current node has no tool or the node raises, the run
\* store is as it was before the call and holds no record of the run, however
\* many steps were logged; and when the failing node is the start node no node
\* has been invoked at all.
C6_Original ==
  \A c \in env.threads :
    Failed(c) =>
      /\ runs = call[c].runs_before
      /\ call[c].run_record.run_id \notin DOMAIN runs
      /\ call[c].current_node = call[c].graph.start_node => call[c].invoked = 0

\* C6 amended: the last part holds when the start node has no registered tool;
\* a start node whose own logic raises has been invoked once, and a start node
\* that is visited again has been invoked before.
C6_FailedRunNotStored ==
  \A c \in env.threads :
    Failed(c) =>
      /\ runs = call[c].runs_before
      /\ call[c].run_record.run_id \notin DOMAIN runs
      /\ got.run_id = call[c].run_record.run_id => got.result = NoRecord
      /\ (call[c].error = "ValueError" /\ call[c].current_node = call[c].graph.start_node) =>
           /\ call[c].invoked = 0
           /\ call[c].step_number = 0
           /\ Log(c) = << >>

\* a run failed on a raising node after two steps had been logged
C6_Witness ==
  \E c \in env.threads :
    /\ Failed(c)
    /\ Len(Log(c)) >= 2
    /\ call[c].error = "NodeError"
    /\ call[c].runs_before = runs

\* C7 as stated: once a step is in the log, nothing a later action does
\* changes what its state_snapshot holds, nested values included.
C7_SnapshotsIndependent ==
  [][\A c \in Callers :
       \A i \in 1 .. Len(Log(c)) :
         Deref(Log(c)[i].state_snapshot, heap') = Deref(Log(c)[i].state_snapshot, heap)]_vars

\* the record of run r, with its nested lists read through the heap
DeepRecord(record, h) ==
  [record EXCEPT !.current_state = Deref(@, h),
                 !.log = [i \in 1 .. Len(@) |->
                            [@[i] EXCEPT !.state_snapshot = Deref(@, h)]]]

\* C8: while a run_graph call is inside its loop, the run store has no entry
\* under its run id and a get_run for that id has returned None; a record in
\* the store is the complete record of a call that has left the loop, and once
\* stored it stays and its content never changes.
C8_InvisibleInFlight ==
  /\ [](\A c \in Callers :
          Busy(c) =>
            /\ call[c].run_record.run_id \notin DOMAIN runs
            /\ got.run_id = call[c].run_record.run_id => got.result = NoRecord)
  /\ [](\A r \in DOMAIN runs :
          /\ Contiguous(runs[r].log)
          /\ runs[r].log # << >> =>
               runs[r].current_state = runs[r].log[Len(runs[r].log)].state_snapshot
          /\ \A c \in Callers :
               call[c].run_record.run_id = r =>
                 call[c].pc = "returned" /\ runs[r] = call[c].run_record)
  /\ [][\A r \in DOMAIN runs :
          /\ r \in DOMAIN runs'
          /\ DeepRecord(runs'[r], heap') = DeepRecord(runs[r], heap)]_vars

\* a get_run for the id of a run that has logged a step and is still in its
\* loop returned None while another record was in the store
C8_Witness ==
  \E c \in env.threads :
    /\ Busy(c)
    /\ Len(Log(c)) >= 1
    /\ got.run_id = call[c].run_record.run_id
    /\ got.result = NoRecord
    /\ DOMAIN runs # {}

\* the names a graph mentions (start node and edge targets) that have no tool
Dangling(graph) ==
  { n \in {graph.start_node} \cup { graph.edges[m] : m \in DOMAIN graph.edges } :
      n # None /\ n \notin DOMAIN tool_registry }

\* C9: a run fails on a missing tool only with that name as the current node
\* of a step below the ceiling, and a call in its loop whose current node has
\* no tool below the ceiling fails with that error at its next step; a call
\* that left the loop without reaching such a name returned and is stored,
\* whatever names without a tool its graph mentions.
C9_LazyValidation ==
  /\ [](\A c \in Callers :
          /\ call[c].error = "ValueError" =>
               /\ call[c].pc = "raised"
               /\ call[c].current_node # None
               /\ call[c].step_number < call[c].max_steps
               /\ call[c].step_number = Len(Log(c))
          /\ call[c].pc = "returned" => Stored(c))
  /\ [][\A c \in Callers :
          (Busy(c) /\ call'[c] # call[c]) =>
            IF LoopCondition(call[c].current_node, call[c].step_number, call[c].max_steps)
            THEN (call'[c].error = "ValueError") <=>
                   (call[c].current_node \notin DOMAIN tool_registry)
            ELSE call'[c].pc = "returned"]_vars

\* a graph whose edge names a node without a tool was created and a run of it
\* that the ceiling ended before that node returned and is stored, the
\* dangling name being the current node it stopped at
C9_Witness ==
  \E c \in env.threads :
    /\ call[c].pc = "returned"
    /\ Stored(c)
    /\ Len(Log(c)) >= 1
    /\ call[c].current_node \in Dangling(call[c].graph)
    /\ graphs[call[c].graph_id] = call[c].graph

\* the walk along the static edges from node n, at most k nodes long
RECURSIVE StaticWalk(_, _, _)
StaticWalk(edges, n, k) ==
  IF n = None \/ k <= 0 THEN << >>
  ELSE <<n>> \o StaticWalk(edges, EdgesGet(edges, n), k - 1)

\* neither the initial state nor any state a node returned holds "_stop" or
\* "_next_node"
NoControlKeys(c) ==
  /\ ~Has(call[c].initial_state, "_stop")
  /\ ~Has(call[c].initial_state, "_next_node")
  /\ \A i \in 1 .. Len(call[c].outputs) :
       ~Has(call[c].outputs[i], "_stop") /\ ~Has(call[c].outputs[i], "_next_node")

Nodes(log) == [i \in 1 .. Len(log) |-> log[i].node]

\* C10: when no state holds "_stop" or "_next_node", the nodes logged are the
\* static walk from the start node, one entry per visit; a call that returned
\* logged the whole walk up to the ceiling and is stored; and the run of
\* nodes [A, B], edges {A: B, B: None}, A = set_x, B = double_x from {} under a
\* ceiling of at least 2 returns the log [A, B] and the final state {x: 2}.
C10_StaticWalk ==
  \A c \in env.threads :
    (InCall(c) /\ NoControlKeys(c)) =>
      LET walk == StaticWalk(call[c].graph.edges, call[c].graph.start_node,
                             Max(call[c].max_steps, 0))
      IN
      /\ Len(Log(c)) <= Len(walk)
      /\ Nodes(Log(c)) = SubSeq(walk, 1, Len(Log(c)))
      /\ call[c].pc = "returned" =>
           /\ Nodes(Log(c)) = walk
           /\ Stored(c)
           /\ (call[c].graph.nodes = <<"A", "B">>
               /\ call[c].graph.edges = [A |-> "B", B |-> None]
               /\ call[c].initial_state = EmptyDict
               /\ call[c].max_steps >= 2
               /\ call[c].inputs[1].func = "set_x"
               /\ call[c].inputs[2].func = "double_x") =>
                /\ Nodes(Log(c)) = <<"A", "B">>
                /\ call[c].run_record.current_state = [x |-> 2]

\* the run of the example: log [A, B] and final state {x: 2}, under a ceiling
\* that allowed more steps
C10_Witness ==
  \E c \in env.threads :
    /\ call[c].pc = "returned"
    /\ NoControlKeys(c)
    /\ call[c].initial_state = EmptyDict
    /\ call[c].max_steps > 2
    /\ Nodes(Log(c)) = <<"A", "B">>
    /\ Stored(c)
    /\ runs[call[c].run_record.run_id].current_state = [x |-> 2]

\* call c runs the single-node graph 'loop' (edge loop -> None) from the empty
\* state, and every node invoked so far was the counting loop_tool
CountingLoop(c) ==
  /\ call[c].graph.nodes = <<"loop">>
  /\ call[c].graph.edges = [loop |-> None]
  /\ call[c].graph.start_node = "loop"
  /\ call[c].initial_state = EmptyDict
  /\ \A i \in 1 .. Len(call[c].inputs) : call[c].inputs[i].func = "loop_tool"

\* C11: the counting loop (c += 1; "_next_node" = "loop" while c < 3; "_stop"
\* at c = 3) run under a ceiling of at least 3, 10 included, does not fail and
\* returns with exactly the log entries 0, 1, 2, all of node 'loop', c = 3 and
\* a truthy stop flag in the final state.
C11_CountingLoop ==
  \A c \in env.threads :
    (CountingLoop(c) /\ call[c].max_steps >= 3) =>
      /\ call[c].pc # "raised" \/ call[c].error = "ValueError"
      /\ InCall(c) =>
           /\ Len(Log(c)) <= 3
           /\ \A i \in 1 .. Len(Log(c)) :
                /\ Log(c)[i].step_number = i - 1
                /\ Log(c)[i].node = "loop"
                /\ Log(c)[i].state_snapshot["c"] = i
      /\ call[c].pc = "returned" =>
           /\ Len(Log(c)) = 3
           /\ call[c].invoked = 3
           /\ call[c].run_record.current_state["c"] = 3
           /\ Truthy(call[c].run_record.current_state)
           /\ Stored(c)

\* the example itself: ceiling 10, three entries, c = 3, stopped
C11_Witness ==
  \E c \in env.threads :
    /\ CountingLoop(c)
    /\ call[c].max_steps = LoopCeiling
    /\ call[c].pc = "returned"
    /\ Len(runs[call[c].run_record.run_id].log) = 3
    /\ runs[call[c].run_record.run_id].current_state = [c |-> 3, _stop |-> TRUE]

\* the definition create_graph call number i stored, as the graph store has it
\* now, is the one that call was given, under the id it returned
Intact(i) ==
  /\ created[i].graph_id \in DOMAIN graphs
  /\ graphs[created[i].graph_id] =
       GraphDefinition(created[i].graph_id, created[i].request)

\* C12: graph definitions are write-once: every create_graph call returned an
\* id no earlier call returned, also for an identical definition; whatever
\* create_graph, register_tool, run_graph and get_run calls follow, each id
\* still maps to the nodes, edges and start node it was created with; and no
\* step changes or removes an entry of the graph store.
C12_GraphsWriteOnce ==
  /\ [](/\ \A i, j \in 1 .. Len(created) :
             i # j => created[i].graph_id # created[j].graph_id
        /\ \A i \in 1 .. Len(created) :
             /\ Intact(i)
             /\ graphs[created[i].graph_id].nodes = created[i].request.nodes
             /\ graphs[created[i].graph_id].edges = created[i].request.edges
             /\ graphs[created[i].graph_id].start_node = created[i].request.start_node
        /\ DOMAIN graphs = { created[i].graph_id : i \in 1 .. Len(created) })
  /\ [][\A g \in DOMAIN graphs :
          g \in DOMAIN graphs' /\ graphs'[g] = graphs[g]]_vars

\* two graphs of the same definition under two ids, both as created after a
\* run of the first returned, a tool was registered and a run was looked up
C12_Witness ==
  /\ Len(created) = 2
  /\ created[1].request = created[2].request
  /\ created[1].graph_id # created[2].graph_id
  /\ Intact(1) /\ Intact(2)
  /\ DOMAIN tool_registry # {}
  /\ got.run_id \in DOMAIN runs
  /\ \E c \in env.threads : call[c].pc = "returned" /\ call[c].graph_id = created[1].graph_id

\* the record call c holds is the record of its own run: of the graph it
\* named, one entry per node it invoked, each holding what that node returned
OwnRecord(c) ==
  /\ call[c].run_record.graph_id = call[c].graph_id
  /\ Len(Log(c)) = Len(call[c].outputs)
  /\ \A i \in 1 .. Len(Log(c)) :
       /\ Log(c)[i].node = call[c].inputs[i].node
       /\ Log(c)[i].state_snapshot = call[c].outputs[i]

\* C13: when the create_graph and run_graph calls of two callers interleave,
\* no update is lost or mixed up: every graph id returned maps to the
\* definition of its call, two runs never share a run id, and the run id of
\* every run_graph call that returned maps to the record of that run.
C13_NoLostUpdate ==
  /\ \A i \in 1 .. Len(created) : Intact(i)
  /\ Cardinality(DOMAIN graphs) = Len(created)
  /\ \A c, d \in env.threads :
       (c # d /\ InCall(c) /\ InCall(d)) =>
         call[c].run_record.run_id # call[d].run_record.run_id
  /\ \A c \in env.threads :
       call[c].pc = "returned" =>
         /\ Stored(c)
         /\ OwnRecord(c)
         /\ runs[call[c].run_record.run_id].run_id = call[c].run_record.run_id

\* both callers created a graph and each returned from a run whose loop
\* overlapped the other's; the two records differ and both are in the store
C13_Witness ==
  /\ Len(created) = 2
  /\ env.threads = {1, 2}
  /\ \A c \in {1, 2} :
       /\ call[c].pc = "returned"
       /\ Len(Log(c)) >= 1
       /\ call[c].run_record.run_id \notin DOMAIN call[c].runs_before
       /\ call[c].runs_before = << >>
       /\ Stored(c)
  /\ call[1].graph_id # call[2].graph_id
  /\ call[1].run_record.log # call[2].run_record.log

\* C14: the engine changes nothing in the state between two invocations but
\* the removal of "_next_node": the start node is handed the caller's initial
\* state, invocation i + 1 is handed what invocation i returned without that
\* key, every other key ("_stop" when falsy too) with its value, and so is the
\* live state after the last invocation of a run that goes on.
C14_Frame ==
  \A c \in env.threads :
    LET in == call[c].inputs
        out == call[c].outputs
    IN
    /\ Len(in) >= 1 => in[1].state = call[c].initial_state
    /\ \A i \in 1 .. Len(in) - 1 :
         /\ in[i + 1].state = Del(out[i], "_next_node")
         /\ \A k \in (DOMAIN out[i]) \ {"_next_node"} :
              Has(in[i + 1].state, k) /\ in[i + 1].state[k] = out[i][k]
    /\ (InCall(c) /\ Len(out) >= 1) =>
         call[c].state = IF Truthy(out[Len(out)])
                         THEN out[Len(out)]
                         ELSE Del(out[Len(out)], "_next_node")

\* a node returned a falsy "_stop" next to "_next_node" and other keys, and
\* the node it named was handed that state with only "_next_node" gone
C14_Witness ==
  \E c \in env.threads :
    \E i \in 1 .. Len(call[c].inputs) - 1 :
      LET out == call[c].outputs[i] IN
      /\ Has(out, "_stop") /\ ~Truthy(out)
      /\ Has(out, "_next_node")
      /\ call[c].inputs[i + 1].state = Del(out, "_next_node")
      /\ Has(call[c].inputs[i + 1].state, "_stop")
      /\ call[c].inputs[1].state = call[c].initial_state

\* C15: every run_graph call ends: a call inside the loop eventually returns
\* with its record stored or raises, having invoked at most max(max_steps, 0)
\* nodes on the way; under a ceiling of 0 or less it invokes none.
C15_Termination ==
  /\ [](\A c \in Callers :
          /\ call[c].invoked <= Max(call[c].max_steps, 0)
          /\ call[c].step_number <= Max(call[c].max_steps, 0)
          /\ call[c].max_steps <= 0 => call[c].invoked = 0 /\ Log(c) = << >>
          /\ call[c].pc = "returned" => Stored(c))
  /\ \A c \in Callers :
       (call[c].pc = "loop") ~> (call[c].pc \in {"returned", "raised"})

\* a call that never stopped by itself ended at the default ceiling, after
\* 100 invocations, with its record stored
C15_Witness ==
  \E c \in env.threads :
    /\ call[c].pc = "returned"
    /\ Stored(c)
    /\ call[c].max_steps = DEFAULT_MAX_STEPS
    /\ call[c].invoked = DEFAULT_MAX_STEPS
    /\ call[c].current_node # None

\* current_state of a record is the snapshot of its last log entry, and the
\* empty mapping when the log is empty
LastSnapshot(record) ==
  IF record.log = << >>
  THEN record.current_state = EmptyDict
  ELSE record.current_state = record.log[Len(record.log)].state_snapshot

\* C16: in every record, stored, returned or still being built (after the
\* first step and after every later one, also when the run then fails),
\* current_state is the state_snapshot of the last log entry; with an empty
\* log, as under a ceiling of 0 or less, it is the empty mapping, whatever
\* initial state the caller passed.
C16_CurrentState ==
  /\ \A r \in DOMAIN runs : LastSnapshot(runs[r])
  /\ \A c \in env.threads :
       /\ LastSnapshot(call[c].run_record)
       /\ (call[c].pc = "returned" /\ call[c].max_steps <= 0) =>
            /\ Log(c) = << >>
            /\ runs[call[c].run_record.run_id].current_state = EmptyDict

\* a run from {x: 3} under a ceiling of 0 returned and is stored with an empty
\* log and the empty mapping as its final state
C16_Witness ==
  \E c \in env.threads :
    /\ call[c].pc = "returned"
    /\ call[c].max_steps = 0
    /\ call[c].initial_state = [x |-> 3]
    /\ call[c].state = [x |-> 3]
    /\ runs[call[c].run_record.run_id].log = << >>
    /\ runs[call[c].run_record.run_id].current_state = EmptyDict

\* C17: the snapshot of each step is the state as its node returned it, every
\* top-level key and value, taken before the transition: it holds "_next_node"
\* with the value the node left there on stopping and on non-stopping steps
\* alike, while the state handed to the next node does not hold the key.
C17_SnapshotBeforeTransition ==
  \A c \in env.threads :
    LET out == call[c].outputs IN
    /\ Len(Log(c)) = Len(out)
    /\ \A i \in 1 .. Len(out) :
         /\ Log(c)[i].state_snapshot = out[i]
         /\ Has(out[i], "_next_node") =>
              /\ Has(Log(c)[i].state_snapshot, "_next_node")
              /\ Log(c)[i].state_snapshot["_next_node"] = out[i]["_next_node"]
              /\ i < Len(call[c].inputs) =>
                   ~Has(call[c].inputs[i + 1].state, "_next_node")
    /\ call[c].pc = "returned" =>
         /\ Stored(c)
         /\ \A i \in 1 .. Len(out) :
              runs[call[c].run_record.run_id].log[i].state_snapshot = out[i]

\* a stored run whose first step redirected and whose last step stopped, both
\* snapshots holding "_next_node", the second node's input not holding it
C17_Witness ==
  \E c \in env.threads :
    /\ call[c].pc = "returned"
    /\ Len(Log(c)) >= 2
    /\ LET log == runs[call[c].run_record.run_id].log
           n == Len(log)
       IN  /\ Has(log[1].state_snapshot, "_next_node")
           /\ ~Truthy(log[1].state_snapshot)
           /\ ~Has(call[c].inputs[2].state, "_next_node")
           /\ Has(log[n].state_snapshot, "_next_node")
           /\ Truthy(log[n].state_snapshot)

\* C18 as stated: /graph/run answers 404 'Graph not found' only when the graph
\* id is not in the graph store, answers 400 only when the current node has no
\* registered tool, and answers an error raised by a node's own logic with
\* neither of the two.
C18_ErrorMapping ==
  \A c \in env.threads :
    (call[c].pc = "raised" /\ call[c].max_steps = DEFAULT_MAX_STEPS) =>
      LET response == run_graph_endpoint(call[c]) IN
      /\ response.status_code = 404 => call[c].error = "KeyError"
      /\ response.status_code = 400 => call[c].error = "ValueError"
      /\ call[c].error = "NodeError" => response.status_code \notin {404, 400}

\* the tool workflows.py registers under node name n
ReviewTool(n) == (CHOOSE reg \in ReviewRegistrations : reg[1] = n)[2]

\* call c runs the default code-review graph with the tools workflows.py
\* registered, from an initial state that holds neither control key
ReviewRun(c) ==
  /\ InCall(c)
  /\ call[c].graph = GraphDefinition(call[c].graph_id, ReviewRequest)
  /\ ~Has(call[c].initial_state, "_stop")
  /\ ~Has(call[c].initial_state, "_next_node")
  /\ \A i \in 1 .. Len(call[c].inputs) :
       call[c].inputs[i].func = ReviewTool(call[c].inputs[i].node)

\* node of visit number i (from 1): the eight nodes in edge order, then
\* suggest_improvements and quality_check in turn
ReviewNode(i) ==
  IF i <= 8 THEN ReviewRequest.nodes[i]
  ELSE IF i % 2 = 1 THEN "suggest_improvements" ELSE "quality_check"

\* C19: a run of the default code-review graph visits the seven analysis
\* nodes in edge order, then quality_check; with quality_score >= the
\* threshold (0.8 when the state has none) quality_check sets approved and
\* "_stop" and the run returns with 8 log entries; otherwise every
\* quality_check sets approved = false and "_next_node" = suggest_improvements,
\* the two nodes alternate, the score is the same at every visit, and the run
\* returns only at the ceiling with max_steps entries and approved = false:
\* under the default ceiling 100 entries, the last one of quality_check.
C19_QualityLoop ==
  \A c \in env.threads :
    ReviewRun(c) =>
      LET out == call[c].outputs
          n == Len(out)
          threshold == Get(call[c].initial_state, "quality_threshold", DEFAULT_THRESHOLD)
          approved == out[7]["quality_score"] >= threshold
      IN
      /\ Len(Log(c)) = n /\ Len(call[c].inputs) = n
      /\ \A i \in 1 .. n : Log(c)[i].node = ReviewNode(i)
      /\ \A i \in 7 .. n : out[i]["quality_score"] = out[7]["quality_score"]
      /\ \A i \in 8 .. n :
           /\ out[i]["approved"] = approved
           /\ approved => i = 8 /\ Truthy(out[i]) /\ call[c].current_node = None
           /\ (~approved /\ i % 2 = 0) =>
                /\ ~Truthy(out[i])
                /\ out[i]["_next_node"] = "suggest_improvements"
      /\ (call[c].pc = "returned" /\ call[c].max_steps >= 8) =>
           /\ Stored(c)
           /\ n >= 8
           /\ approved => n = 8
           /\ ~approved =>
                /\ n = call[c].max_steps
                /\ Log(c)[n].node = ReviewNode(call[c].max_steps)
                /\ call[c].run_record.current_state["approved"] = FALSE
                /\ call[c].max_steps = DEFAULT_MAX_STEPS =>
                     /\ Len(Log(c)) = 100
                     /\ Log(c)[100].node = "quality_check"

\* a stored run of the messy text under the default ceiling: 100 entries,
\* suggest_improvements at visit 9, quality_check last, not approved
C19_Witness ==
  \E c \in env.threads :
    /\ ReviewRun(c)
    /\ call[c].pc = "returned"
    /\ call[c].max_steps = DEFAULT_MAX_STEPS
    /\ LET record == runs[call[c].run_record.run_id] IN
       /\ Len(record.log) = 100
       /\ record.log[9].node = "suggest_improvements"
       /\ record.log[100].node = "quality_check"
       /\ record.current_state["approved"] = FALSE
       /\ record.current_state["quality_score"] = 61

====
